---- MODULE Spec2Model ----
(***************************************************************************)
(* Classical post-processing of the Shor tutorial notebook:                *)
(*   classical_Shor / is_prime / find_period_classical (brute force),      *)
(*   quantum_shor_qiskit / quantum_shor after the measurement step         *)
(*   (binary_to_float, get_r_candidates, validation, factor recovery),     *)
(*   error_rate_upper_bound.                                               *)
(* One call of one function is followed from its entry to its return or    *)
(* its raise; pc is the position inside the function body.                 *)
(***************************************************************************)
EXTENDS Integers, Sequences, FiniteSets, TLC

\* ----------------------------------------------------------------- bounds
MaxN == 25          \* classical_Shor is called with N in 2..MaxN
MaxQuantumN == 15   \* the quantum routines are called with N in 2..MaxQuantumN
MaxBase == 4        \* and with a base a in 1..MaxBase, a < N
PhaseBits == 3      \* width of a measured bitstring
MaxOutcomes == 2    \* distinct bitstrings in one measurement result
MaxV == 2           \* quantum volumes 0..MaxV
SDen == 2           \* success rates are the fractions sNum / SDen
MaxE == 30          \* trial exponents of find_period_classical are followed up to MaxE
MaxTested == 130    \* is_prime is called with n in -3..MaxTested
MaxPhaseBits == 6   \* get_r_candidates is called with k/2^b, b in 1..MaxPhaseBits

\* ------------------------------------------------------------ pure helpers
RECURSIVE Gcd(_, _)
\* math.gcd / np.gcd on non-negative integers (gcd(0, n) = n)
Gcd(m, n) == IF n = 0 THEN m ELSE Gcd(n, m % n)

RECURSIVE PowMod(_, _, _)
\* pow(g, e, N) and (a**e) % N: Python integers are unbounded, so both are
\* the exact residue; the product is reduced at every step to stay in range
PowMod(g, e, n) == IF e = 0 THEN 1 % n ELSE (PowMod(g, e - 1, n) * (g % n)) % n

RECURSIVE Pow2(_)
Pow2(k) == IF k = 0 THEN 1 ELSE 2 * Pow2(k - 1)

RECURSIVE trial_division_single(_, _)
\* variant of trial_division that tests n % i only
trial_division_single(n, i) ==
    IF i * i <= n
    THEN IF n % i = 0 THEN FALSE ELSE trial_division_single(n, i + 6)
    ELSE TRUE

RECURSIVE trial_division(_, _)
\* the while loop of is_prime from trial divisor i on
trial_division(n, i) ==
    IF i * i <= n
    THEN IF n % i = 0 \/ n % (i + 2) = 0 THEN FALSE ELSE trial_division(n, i + 6)
    ELSE TRUE

\* variant of is_prime whose second test is n < 3
is_prime_excludes_3(n) ==
    IF n <= 1 THEN FALSE
    ELSE IF n < 3 THEN TRUE
    ELSE IF n % 2 = 0 \/ n % 3 = 0 THEN FALSE
    ELSE trial_division(n, 5)

\* variant of is_prime that omits the n % 3 test
is_prime_keeps_3n(n) ==
    IF n <= 1 THEN FALSE
    ELSE IF n <= 3 THEN TRUE
    ELSE IF n % 2 = 0 THEN FALSE
    ELSE trial_division(n, 5)

is_prime(n) ==
    IF n <= 1 THEN FALSE
    ELSE IF n <= 3 THEN TRUE
    ELSE IF n % 2 = 0 \/ n % 3 = 0 THEN FALSE
    ELSE trial_division(n, 5)

\* variant of even_pair with the cofactor first
even_pair_swapped(n) == <<n \div 2, 2>>

\* return (2, N // 2)
even_pair(n) == <<2, n \div 2>>

\* variant of prime_pair with N first
prime_pair_swapped(n) == <<n, 1>>

\* return (1, N)
prime_pair(n) == <<1, n>>

\* variant of gcd_pair that divides N by the base instead of the gcd
gcd_pair_by_base(av, n) == <<Gcd(av, n), n \div av>>

\* return math.gcd(a, N), N // math.gcd(a, N)
gcd_pair(av, n) == <<Gcd(av, n), n \div Gcd(av, n)>>

\* variant of validates with a*cand in place of a**cand
validates_product(av, cand, n) == (av * cand) % n = 1

\* (a**cand) % N == 1
validates(av, cand, n) == PowMod(av, cand, n) = 1

\* variant of odd_order with the parity test inverted
odd_order_inverted(rv) == rv % 2 = 0

\* if r % 2:
odd_order(rv) == rv % 2 # 0

\* variant of ordered_pair without the swap
ordered_pair_unswapped(pv, qv) == <<pv, qv>>

\* if (p > q): return (q, p)   else   return (p, q)
ordered_pair(pv, qv) == IF pv > qv THEN <<qv, pv>> ELSE <<pv, qv>>

\* variant of rate_invalid that also rejects success_rate = 1
rate_invalid_closed(sn) == sn <= 0 \/ sn >= SDen

\* success_rate <= 0 or success_rate > 1, for success_rate = sn / SDen
rate_invalid(sn) == sn <= 0 \/ sn > SDen

\* one measured bitstring -> the phase it denotes, as <<numerator, 2^len>>:
\* bit i (0-indexed from the left) contributes 2^-(i+1)
binary_to_float(binary) ==
    LET n == Len(binary)
        RECURSIVE Acc(_)
        Acc(i) == IF i > n THEN 0
                  ELSE (IF binary[i] = 1 THEN Pow2(n - i) ELSE 0) + Acc(i + 1)
    IN  <<Acc(1), Pow2(n)>>

RECURSIVE convergent_denominators_stale(_, _, _, _)
\* variant of convergent_denominators that does not shift q_1 into q_2
convergent_denominators_stale(num, den, q_1, q_2) ==
    LET term == num \div den
        qn   == term * q_1 + q_2
        frac == num % den
    IN  <<qn>> \o (IF frac = 0 THEN <<>>
                   ELSE convergent_denominators_stale(den, frac, qn, q_2))

RECURSIVE convergent_denominators(_, _, _, _)
\* continued_fraction_convergents over continued_fraction_iterator of num/den:
\* term = floor(x); q = term*q_1 + q_2; stop when the fractional part is 0,
\* else continue with 1/(x - term).  Only the denominators are kept.
convergent_denominators(num, den, q_1, q_2) ==
    LET term == num \div den
        qn   == term * q_1 + q_2
        frac == num % den
    IN  <<qn>> \o (IF frac = 0 THEN <<>>
                   ELSE convergent_denominators(den, frac, qn, q_1))

\* variant of get_r_candidates with the seeds q_1 and q_2 exchanged
get_r_candidates_seeds_exchanged(approx) ==
    convergent_denominators(approx[1], approx[2], 1, 0)

\* get_r_candidates(approx) for approx = <<num, den>>
get_r_candidates(approx) == convergent_denominators(approx[1], approx[2], 0, 1)

RECURSIVE pooled(_)
\* sum([get_r_candidates(approx) for approx in binary_to_float(keys)], [])
pooled(keys) ==
    IF keys = <<>> THEN <<>>
    ELSE get_r_candidates(binary_to_float(Head(keys))) \o pooled(Tail(keys))

Range(f) == {f[i] : i \in DOMAIN f}

SetMin(S) == CHOOSE m \in S : \A y \in S : m <= y

RECURSIVE ascending(_)
ascending(S) == IF S = {} THEN <<>>
                ELSE <<SetMin(S)>> \o ascending(S \ {SetMin(S)})

SetMax(S) == CHOOSE m \in S : \A y \in S : m >= y

RECURSIVE descending(_)
descending(S) == IF S = {} THEN <<>>
                 ELSE <<SetMax(S)>> \o descending(S \ {SetMax(S)})

\* variant of sorted_set that sorts in descending order
sorted_set_descending(cands) == descending(Range(cands))

\* variant of sorted_set that scans the pool as it was built
sorted_set_as_pooled(cands) == cands

\* sorted(set(r_candidates))
sorted_set(cands) == ascending(Range(cands))

\* ------------------------------------------------------------------- state
VARIABLES
    fn,            \* the function that was called ("" before the call)
    pc,            \* position in its body
    N, a,          \* modulus, base
    g,             \* base argument of find_period_classical
    e, r, x, p, q, \* locals of find_period_classical / the drivers
    ret,           \* returned pair (<<>> while nothing is returned)
    via,           \* the return statement taken
    exc,           \* message of the raised exception ("" if none)
    calls,         \* callees invoked so far
    meas_res,      \* keys of the measurement result, in dict order
    r_candidates,  \* pooled candidate list
    todo,          \* rest of sorted(set(r_candidates)) still to scan
    examined,      \* candidates the scan has tested, in order
    V, sNum,       \* arguments of error_rate_upper_bound (s = sNum/SDen)
    tested, approx \* arguments of is_prime / get_r_candidates called directly

vars == <<fn, pc, N, a, g, e, r, x, p, q, ret, via, exc, calls,
          meas_res, r_candidates, todo, examined, V, sNum, tested, approx>>

cvars == <<N, a, g, e, r, x, p, q>>
qvars == <<meas_res, r_candidates, todo, examined>>
evars == <<V, sNum>>
pvars == <<tested, approx>>

Resample == "Please sample again"
BadBase == "Please choose another a"
BadRate == "The success rate should be between 0 and 1"

Bitstrings == [1..PhaseBits -> {0, 1}]

\* duplicate-free key sequences of 1..MaxOutcomes bitstrings
Measurements ==
    {m \in UNION {[1..k -> Bitstrings] : k \in 1..MaxOutcomes} :
        \A i, j \in DOMAIN m : i # j => m[i] # m[j]}

Init ==
    /\ fn = "" /\ pc = "idle"
    /\ N = 0 /\ a = 0 /\ g = 0 /\ e = 0 /\ r = 0 /\ x = 0 /\ p = 0 /\ q = 0
    /\ ret = <<>> /\ via = "" /\ exc = "" /\ calls = {}
    /\ meas_res = <<>> /\ r_candidates = <<>> /\ todo = <<>> /\ examined = <<>>
    /\ V = 0 /\ sNum = 0
    /\ tested = 0 /\ approx = <<>>

\* -------------------------------------------------------- classical_Shor
CS_Call ==
    /\ pc = "idle"
    /\ \E n \in 2..MaxN : N' = n
    /\ fn' = "classical_Shor" /\ pc' = "cs_even"
    /\ UNCHANGED <<a, g, e, r, x, p, q, ret, via, exc, calls, qvars, evars, pvars>>

\* variant of CS_Even that consults is_prime before the parity test
CS_Even_after_is_prime ==
    /\ pc = "cs_even"
    /\ calls' = calls \cup {"is_prime"}
    /\ IF N % 2 = 0
       THEN ret' = even_pair(N) /\ via' = "even" /\ pc' = "done"
       ELSE pc' = "cs_prime" /\ UNCHANGED <<ret, via>>
    /\ UNCHANGED <<fn, cvars, exc, qvars, evars, pvars>>

\* if N % 2 == 0: return (2, N // 2)
CS_Even ==
    /\ pc = "cs_even"
    /\ IF N % 2 = 0
       THEN ret' = even_pair(N) /\ via' = "even" /\ pc' = "done"
       ELSE pc' = "cs_prime" /\ UNCHANGED <<ret, via>>
    /\ UNCHANGED <<fn, cvars, exc, calls, qvars, evars, pvars>>

\* if (is_prime(N)): return (1, N)
CS_Prime ==
    /\ pc = "cs_prime"
    /\ calls' = calls \cup {"is_prime"}
    /\ IF is_prime(N)
       THEN ret' = prime_pair(N) /\ via' = "prime" /\ pc' = "done"
       ELSE pc' = "cs_draw" /\ UNCHANGED <<ret, via>>
    /\ UNCHANGED <<fn, cvars, exc, qvars, evars, pvars>>

\* random.randint(2, N - 1) comes back with v
CS_DrawBase(v) ==
    /\ pc = "cs_draw"
    /\ v \in 2..(N - 1)
    /\ a' = v
    /\ calls' = calls \cup {"randint"}
    /\ pc' = "cs_gcd"
    /\ UNCHANGED <<fn, N, g, e, r, x, p, q, ret, via, exc, qvars, evars, pvars>>

\* a = random.randint(2, N - 1)
CS_Draw == \E v \in 2..(N - 1) : CS_DrawBase(v)

\* variant of CS_Gcd that goes to find_period_classical without the gcd test
CS_Gcd_without_gcd_test ==
    /\ pc = "cs_gcd"
    /\ calls' = calls \cup {"find_period_classical"}
    /\ g' = a /\ e' = 1 /\ pc' = "fpc_loop"
    /\ UNCHANGED <<fn, N, a, r, x, p, q, ret, via, exc, qvars, evars, pvars>>

\* if math.gcd(a, N) != 1: return math.gcd(a, N), N // math.gcd(a, N)
\* else r = find_period_classical(a, N)  (entered with e = 1)
CS_Gcd ==
    /\ pc = "cs_gcd"
    /\ IF Gcd(a, N) # 1
       THEN /\ ret' = gcd_pair(a, N) /\ via' = "gcd_a"
            /\ pc' = "done"
            /\ UNCHANGED <<g, e, calls>>
       ELSE /\ calls' = calls \cup {"find_period_classical"}
            /\ g' = a /\ e' = 1 /\ pc' = "fpc_loop"
            /\ UNCHANGED <<ret, via>>
    /\ UNCHANGED <<fn, N, a, r, x, p, q, exc, qvars, evars, pvars>>

\* find_period_classical(g, N) called on its own, with any g >= 0
FPC_Call ==
    /\ pc = "idle"
    /\ \E m \in 2..MaxN : \E gv \in 0..MaxN : N' = m /\ g' = gv
    /\ fn' = "find_period_classical" /\ e' = 1 /\ pc' = "fpc_loop"
    /\ UNCHANGED <<a, r, x, p, q, ret, via, exc, calls, qvars, evars, pvars>>

\* variant of FPC_Step that advances the exponent by two
FPC_Step_by_two ==
    /\ pc = "fpc_loop"
    /\ PowMod(g, e, N) # 1
    /\ e < MaxE
    /\ e' = e + 2
    /\ UNCHANGED <<fn, pc, N, a, g, r, x, p, q, ret, via, exc, calls, qvars, evars, pvars>>

\* while (pow(g, e, N) != 1): e = e + 1
\* (the exponent is unbounded in the code; it is followed up to MaxE)
FPC_Step ==
    /\ pc = "fpc_loop"
    /\ PowMod(g, e, N) # 1
    /\ e < MaxE
    /\ e' = e + 1
    /\ UNCHANGED <<fn, pc, N, a, g, r, x, p, q, ret, via, exc, calls, qvars, evars, pvars>>

\* variant of FPC_Return whose loop also ends on a residue of 0
FPC_Return_on_zero ==
    /\ pc = "fpc_loop"
    /\ PowMod(g, e, N) <= 1
    /\ IF fn = "classical_Shor"
       THEN r' = e /\ pc' = "cs_parity" /\ UNCHANGED <<ret, via>>
       ELSE ret' = <<e>> /\ via' = "period" /\ pc' = "done" /\ UNCHANGED r
    /\ UNCHANGED <<fn, N, a, g, e, x, p, q, exc, calls, qvars, evars, pvars>>

\* return e: to the caller classical_Shor (r = ...), or as the result
FPC_Return ==
    /\ pc = "fpc_loop"
    /\ PowMod(g, e, N) = 1
    /\ IF fn = "classical_Shor"
       THEN r' = e /\ pc' = "cs_parity" /\ UNCHANGED <<ret, via>>
       ELSE ret' = <<e>> /\ via' = "period" /\ pc' = "done" /\ UNCHANGED r
    /\ UNCHANGED <<fn, N, a, g, e, x, p, q, exc, calls, qvars, evars, pvars>>

\* variant of CS_Parity that raises a to r instead of r // 2
CS_Parity_full_exponent ==
    /\ pc = "cs_parity"
    /\ IF r % 2 = 0
       THEN LET xv == PowMod(a, r, N) IN
            /\ x' = xv
            /\ p' = Gcd(xv - 1, N)
            /\ q' = Gcd(xv + 1, N)
            /\ pc' = "cs_test"
       ELSE pc' = "cs_draw" /\ UNCHANGED <<x, p, q>>
    /\ UNCHANGED <<fn, N, a, g, e, r, ret, via, exc, calls, qvars, evars, pvars>>

\* if r % 2 == 0: x, p, q = ...   (an odd r falls through to the next draw)
CS_Parity ==
    /\ pc = "cs_parity"
    /\ IF r % 2 = 0
       THEN LET xv == PowMod(a, r \div 2, N) IN
            /\ x' = xv
            /\ p' = Gcd(xv - 1, N)
            /\ q' = Gcd(xv + 1, N)
            /\ pc' = "cs_test"
       ELSE pc' = "cs_draw" /\ UNCHANGED <<x, p, q>>
    /\ UNCHANGED <<fn, N, a, g, e, r, ret, via, exc, calls, qvars, evars, pvars>>

\* the two return tests on p and q; neither holding, the loop draws again
CS_Test ==
    /\ pc = "cs_test"
    /\ IF p # 1 /\ p # N
       THEN ret' = <<p, N \div p>> /\ via' = "p" /\ pc' = "done"
       ELSE IF q # 1 /\ q # N
            THEN ret' = <<q, N \div q>> /\ via' = "q" /\ pc' = "done"
            ELSE pc' = "cs_draw" /\ UNCHANGED <<ret, via>>
    /\ UNCHANGED <<fn, cvars, exc, calls, qvars, evars, pvars>>

\* ------------------------------ quantum_shor_qiskit / quantum_shor
\* meas_res = find_order_qiskit(a, N): the measurement is the backend's; any
\* non-empty result over PhaseBits-wide bitstrings may come back
QS_Call ==
    /\ pc = "idle"
    /\ \E n \in 2..MaxQuantumN : \E av \in 1..MaxBase :
          av < n /\ N' = n /\ a' = av
    /\ \E m \in Measurements : meas_res' = m
    /\ fn' = "quantum_shor" /\ pc' = "qs_pool"
    /\ UNCHANGED <<g, e, r, x, p, q, ret, via, exc, calls,
                   r_candidates, todo, examined, evars, pvars>>

\* r_candidates = sum([...], []) and the iterable sorted(set(r_candidates))
QS_Pool ==
    /\ pc = "qs_pool"
    /\ r_candidates' = pooled(meas_res)
    /\ todo' = sorted_set(pooled(meas_res))
    /\ pc' = "qs_scan"
    /\ UNCHANGED <<fn, cvars, ret, via, exc, calls, meas_res, examined, evars, pvars>>

\* variant of QS_Scan that tests a**(2*cand) instead of a**cand
QS_Scan_doubled_exponent ==
    /\ pc = "qs_scan"
    /\ todo # <<>>
    /\ examined' = Append(examined, Head(todo))
    /\ IF validates(a, 2 * Head(todo), N)
       THEN r' = Head(todo) /\ pc' = "qs_parity" /\ UNCHANGED todo
       ELSE todo' = Tail(todo) /\ UNCHANGED <<r, pc>>
    /\ UNCHANGED <<fn, N, a, g, e, x, p, q, ret, via, exc, calls,
                   meas_res, r_candidates, evars, pvars>>

\* one iteration of: for cand in ...: if (a**cand) % N == 1: r = cand; break
QS_Scan ==
    /\ pc = "qs_scan"
    /\ todo # <<>>
    /\ examined' = Append(examined, Head(todo))
    /\ IF validates(a, Head(todo), N)
       THEN r' = Head(todo) /\ pc' = "qs_parity" /\ UNCHANGED todo
       ELSE todo' = Tail(todo) /\ UNCHANGED <<r, pc>>
    /\ UNCHANGED <<fn, N, a, g, e, x, p, q, ret, via, exc, calls,
                   meas_res, r_candidates, evars, pvars>>

\* for ... else: raise Exception("Please sample again")
QS_Exhausted ==
    /\ pc = "qs_scan"
    /\ todo = <<>>
    /\ exc' = Resample /\ pc' = "raised"
    /\ UNCHANGED <<fn, cvars, ret, via, calls, qvars, evars, pvars>>

\* if r % 2: raise Exception("Please choose another a")
QS_Parity ==
    /\ pc = "qs_parity"
    /\ calls' = calls \cup {"parity"}
    /\ IF odd_order(r)
       THEN exc' = BadBase /\ pc' = "raised"
       ELSE pc' = "qs_gcd" /\ UNCHANGED exc
    /\ UNCHANGED <<fn, cvars, ret, via, qvars, evars, pvars>>

\* variant of QS_Gcd that raises a to r instead of r // 2
QS_Gcd_full_exponent ==
    /\ pc = "qs_gcd"
    /\ calls' = calls \cup {"gcd"}
    /\ LET pv == Gcd(PowMod(a, r, N) + 1, N) IN
       p' = pv /\ q' = N \div pv
    /\ pc' = "qs_order"
    /\ UNCHANGED <<fn, N, a, g, e, r, x, ret, via, exc, qvars, evars, pvars>>

\* p = np.gcd(a**(r//2)+1, N); q = int(N/p)
\* gcd(X, N) = gcd(X mod N, N), so the unbounded power is taken modulo N;
\* N/p is exact in double precision for these N
QS_Gcd ==
    /\ pc = "qs_gcd"
    /\ calls' = calls \cup {"gcd"}
    /\ LET pv == Gcd(PowMod(a, r \div 2, N) + 1, N) IN
       p' = pv /\ q' = N \div pv
    /\ pc' = "qs_order"
    /\ UNCHANGED <<fn, N, a, g, e, r, x, ret, via, exc, qvars, evars, pvars>>

\* variant of QS_Return that asks for new samples when p is 1 or N
QS_Return_nontrivial_only ==
    /\ pc = "qs_order"
    /\ IF p = 1 \/ p = N
       THEN exc' = Resample /\ pc' = "raised" /\ UNCHANGED <<ret, via>>
       ELSE /\ ret' = ordered_pair(p, q)
            /\ via' = IF p > q THEN "swapped" ELSE "ordered"
            /\ pc' = "done" /\ UNCHANGED exc
    /\ UNCHANGED <<fn, cvars, calls, qvars, evars, pvars>>

\* if (p > q): return (q, p)    return (p, q)
QS_Return ==
    /\ pc = "qs_order"
    /\ ret' = ordered_pair(p, q)
    /\ via' = IF p > q THEN "swapped" ELSE "ordered"
    /\ pc' = "done"
    /\ UNCHANGED <<fn, cvars, exc, calls, qvars, evars, pvars>>

\* ------------------------------------------------ error_rate_upper_bound
ER_Call ==
    /\ pc = "idle"
    /\ \E v \in 0..MaxV : V' = v
    /\ \E sn \in (0 - SDen)..(2 * SDen) : sNum' = sn
    /\ fn' = "error_rate_upper_bound" /\ pc' = "er_guard"
    /\ UNCHANGED <<cvars, ret, via, exc, calls, qvars, pvars>>

\* if success_rate <= 0 or success_rate > 1: raise Exception(...)
ER_Guard ==
    /\ pc = "er_guard"
    /\ IF rate_invalid(sNum)
       THEN exc' = BadRate /\ pc' = "raised"
       ELSE pc' = "er_formula" /\ UNCHANGED exc
    /\ UNCHANGED <<fn, cvars, ret, via, calls, qvars, evars, pvars>>

\* return 1 - np.exp(np.log(success_rate)/V), kept symbolically as
\* <<"1-root", V, sNum, SDen>> = 1 - (sNum/SDen)^(1/V); numpy divides by
\* V = 0 without raising (log(s)/0 is -inf, or nan for s = 1)
ER_Formula ==
    /\ pc = "er_formula"
    /\ calls' = calls \cup {"log", "exp"}
    /\ ret' = IF V = 0
              THEN (IF sNum = SDen THEN <<"nan">> ELSE <<"1-exp(-inf)">>)
              ELSE <<"1-root", V, sNum, SDen>>
    /\ via' = "formula" /\ pc' = "done"
    /\ UNCHANGED <<fn, cvars, exc, qvars, evars, pvars>>

\* ---------------------------------------------- is_prime called directly
IP_Call ==
    /\ pc = "idle"
    /\ \E k \in (0 - 3)..MaxTested : tested' = k
    /\ fn' = "is_prime" /\ pc' = "ip_body"
    /\ UNCHANGED <<cvars, ret, via, exc, calls, qvars, evars, approx>>

\* the body of is_prime, down to its return
IP_Return ==
    /\ pc = "ip_body"
    /\ ret' = <<is_prime(tested)>>
    /\ via' = "is_prime" /\ pc' = "done"
    /\ UNCHANGED <<fn, cvars, exc, calls, qvars, evars, pvars>>

\* -------------------------------------- get_r_candidates called directly
\* the phases are the binary fractions k/2^b of [0, 1)
GRC_Call ==
    /\ pc = "idle"
    /\ \E b \in 1..MaxPhaseBits : \E k \in 0..(Pow2(b) - 1) :
          approx' = <<k, Pow2(b)>>
    /\ fn' = "get_r_candidates" /\ pc' = "grc_body"
    /\ UNCHANGED <<cvars, ret, via, exc, calls, qvars, evars, tested>>

\* return [rat.q for rat in rationals]
GRC_Return ==
    /\ pc = "grc_body"
    /\ ret' = get_r_candidates(approx)
    /\ via' = "denominators" /\ pc' = "done"
    /\ UNCHANGED <<fn, cvars, exc, calls, qvars, evars, pvars>>

Next ==
    \/ CS_Call \/ CS_Even \/ CS_Prime \/ CS_Draw \/ CS_Gcd
    \/ FPC_Call \/ FPC_Step \/ FPC_Return \/ CS_Parity \/ CS_Test
    \/ QS_Call \/ QS_Pool \/ QS_Scan \/ QS_Exhausted \/ QS_Parity
    \/ QS_Gcd \/ QS_Return
    \/ ER_Call \/ ER_Guard \/ ER_Formula
    \/ IP_Call \/ IP_Return
    \/ GRC_Call \/ GRC_Return

Spec == Init /\ [][Next]_vars

\* ---------------------------------------- classical_Shor under fair draws
\* the steps of a running call other than the draw
ClassicalStep ==
    \/ CS_Even \/ CS_Prime \/ CS_Gcd \/ FPC_Step \/ FPC_Return
    \/ CS_Parity \/ CS_Test

ClassicalNext ==
    \/ CS_Call \/ CS_Even \/ CS_Prime \/ CS_Draw \/ CS_Gcd
    \/ FPC_Step \/ FPC_Return \/ CS_Parity \/ CS_Test

\* the draws that come back with a base sharing a factor with N, and the others
CS_DrawCommonFactor == \E v \in 2..(N - 1) : Gcd(v, N) # 1 /\ CS_DrawBase(v)
CS_DrawCoprime == \E v \in 2..(N - 1) : Gcd(v, N) = 1 /\ CS_DrawBase(v)

\* a call that has started keeps running, and while the retry loop runs
\* random.randint returns every base of [2, N-1] again and again; N is fixed
\* during a call, so the bases of either kind are drawn again and again
FairDraws ==
    /\ WF_vars(ClassicalStep)
    /\ SF_vars(CS_DrawCommonFactor)
    /\ SF_vars(CS_DrawCoprime)

LiveSpec == Init /\ [][ClassicalNext]_vars /\ FairDraws

\* ------------------------------------------------------------- properties
\* number-theoretic notions stated independently of the code above
Divisors(n) == {d \in 1..n : n % d = 0}
IsPrimeNumber(n) == n >= 2 /\ Divisors(n) = {1, n}
IsComposite(n) == n >= 4 /\ \E d \in 2..(n - 1) : n % d = 0

Returned(f) == fn = f /\ pc = "done"
Ended(f) == fn = f /\ pc \in {"done", "raised"}

\* candidates of the pool that satisfy a^c mod N = 1
ValidCandidates == {c \in Range(r_candidates) : PowMod(a, c, N) = 1}

\* C1: whenever classical_Shor(N) returns a pair (p, q), p * q = N
C1_ProductIsN ==
    Returned("classical_Shor") => Len(ret) = 2 /\ ret[1] * ret[2] = N

C1_Witness ==
    /\ Returned("classical_Shor") /\ via = "gcd_a"
    /\ ret[1] * ret[2] = N /\ ret[1] > ret[2]

\* C2: for composite N >= 4 both returned factors are nontrivial
C2_NontrivialFactors ==
    (Returned("classical_Shor") /\ IsComposite(N)) =>
        /\ 1 < ret[1] /\ ret[1] < N
        /\ 1 < ret[2] /\ ret[2] < N

C2_Witness ==
    /\ Returned("classical_Shor") /\ IsComposite(N) /\ via = "p"
    /\ 1 < ret[1] /\ ret[1] < N

\* C3 as stated: for every prime N >= 2 classical_Shor(N) returns (1, N)
C3_Original ==
    (Returned("classical_Shor") /\ IsPrimeNumber(N)) => ret = <<1, N>>

\* C3 amended: for every odd prime N classical_Shor(N) returns (1, N); the
\* even prime N = 2 leaves through the even branch with (2, 1)
C3_PrimeSignal ==
    (Returned("classical_Shor") /\ IsPrimeNumber(N)) =>
        /\ N # 2 => ret = <<1, N>> /\ via = "prime"
        /\ N = 2 => ret = <<2, 1>> /\ via = "even"

C3_Witness ==
    /\ Returned("classical_Shor") /\ IsPrimeNumber(N) /\ N > 3
    /\ ret = <<1, N>>

\* C4: for even N classical_Shor returns (2, N/2) straight from its first
\* test: no base is drawn, is_prime and find_period_classical are not invoked
C4_EvenShortCircuit ==
    (fn = "classical_Shor" /\ N % 2 = 0) =>
        /\ pc \in {"cs_even", "done"}
        /\ calls = {} /\ a = 0 /\ e = 0
        /\ pc = "done" => ret = <<2, N \div 2>> /\ via = "even"

C4_Witness ==
    /\ Returned("classical_Shor") /\ N % 2 = 0 /\ N > 2
    /\ ret = <<2, N \div 2>> /\ calls = {}

\* C5 as stated: every pair returned by classical_Shor has p <= q
C5_Original ==
    Returned("classical_Shor") => ret[1] <= ret[2]

\* C5 amended: the pair returned from the even branch for N >= 4 and the pair
\* returned from the prime branch have p <= q; N = 2 returns (2, 1), and the
\* pairs returned inside the retry loop put the divisor found first
C5_OrderedOutsideLoop ==
    Returned("classical_Shor") =>
        /\ (via \in {"even", "prime"} /\ N # 2) => ret[1] <= ret[2]
        /\ N = 2 => ret = <<2, 1>>
        /\ via = "gcd_a" => ret[1] = Gcd(a, N)
        /\ via = "p" => ret[1] = Gcd(x - 1, N)
        /\ via = "q" => ret[1] = Gcd(x + 1, N)

C5_Witness ==
    /\ Returned("classical_Shor") /\ via = "even" /\ N >= 4
    /\ ret[1] <= ret[2]

\* C6: a pair returned by the quantum post-processing has p <= q and p*q = N
C6_QuantumPair ==
    Returned("quantum_shor") =>
        /\ Len(ret) = 2
        /\ ret[1] <= ret[2]
        /\ ret[1] * ret[2] = N

C6_Witness ==
    /\ Returned("quantum_shor") /\ via = "swapped"
    /\ ret[1] < ret[2] /\ ret[1] * ret[2] = N

\* C7: the scan visits the distinct pooled candidates in ascending order and
\* stops at the first match, so the accepted r is the smallest candidate of
\* the pool (as a set) with a^r mod N = 1
C7_SmallestValidAccepted ==
    (fn = "quantum_shor" /\ pc \notin {"qs_pool"}) =>
        /\ \A i \in 1..(Len(examined) - 1) : examined[i] < examined[i + 1]
        /\ Range(examined) \subseteq Range(r_candidates)
        /\ pc \in {"qs_parity", "qs_gcd", "qs_order", "done"} \/ exc = BadBase =>
              /\ r \in ValidCandidates
              /\ \A c \in ValidCandidates : r <= c
              /\ Range(examined) = {c \in Range(r_candidates) : c <= r}

C7_Witness ==
    /\ fn = "quantum_shor" /\ pc = "qs_parity"
    /\ r = SetMin(ValidCandidates) /\ r > 2
    /\ \E c \in Range(r_candidates) : c > r
    /\ Len(r_candidates) > Cardinality(Range(r_candidates))
    /\ \E i \in 1..(Len(r_candidates) - 1) : r_candidates[i] > r_candidates[i + 1]

\* C8: "Please sample again" is raised exactly when no pooled candidate c has
\* a^c mod N = 1, and then without a parity test, a gcd or a returned pair
C8_ResampleIffNoValid ==
    Ended("quantum_shor") =>
        /\ exc = Resample <=> ValidCandidates = {}
        /\ exc = Resample =>
              calls = {} /\ ret = <<>> /\ p = 0 /\ q = 0 /\ pc = "raised"

C8_Witness ==
    /\ Ended("quantum_shor") /\ exc = Resample
    /\ Gcd(a, N) = 1 /\ Len(examined) >= 3

\* C9: with a valid candidate in the pool, "Please choose another a" is raised
\* exactly when the smallest valid candidate is odd, before any gcd; a pair is
\* returned only for an even accepted r
C9_BadBaseIffOddOrder ==
    (Ended("quantum_shor") /\ ValidCandidates # {}) =>
        /\ exc = BadBase <=> SetMin(ValidCandidates) % 2 = 1
        /\ exc = BadBase => "gcd" \notin calls /\ ret = <<>> /\ p = 0
        /\ ret # <<>> => r % 2 = 0 /\ r = SetMin(ValidCandidates)

C9_Witness ==
    /\ Ended("quantum_shor") /\ exc = BadBase
    /\ r >= 3 /\ r = SetMin(ValidCandidates)

\* C10: error_rate_upper_bound raises exactly for s <= 0 or s > 1, whatever V
\* is, and does so before the formula; for 0 < s <= 1 it returns a value
C10_RateGuard ==
    /\ (fn = "error_rate_upper_bound" /\ pc = "er_formula") =>
          (0 < sNum /\ sNum <= SDen /\ calls = {})
    /\ Ended("error_rate_upper_bound") =>
          /\ exc = BadRate <=> (sNum <= 0 \/ sNum > SDen)
          /\ exc = BadRate => calls = {} /\ ret = <<>>
          /\ (0 < sNum /\ sNum <= SDen) =>
                pc = "done" /\ exc = "" /\ ret # <<>>

C10_Witness ==
    /\ Returned("error_rate_upper_bound") /\ sNum = SDen /\ V > 0
    /\ exc = "" /\ ret # <<>>

\* exponents in 1..n at which g^k mod n = 1, and the order of g modulo n
Periods(gv, m) == {k \in 1..m : PowMod(gv, k, m) = 1}
MultOrder(gv, m) == SetMin(Periods(gv, m))

\* C11: for gcd(g, N) = 1 find_period_classical(g, N) increments the trial
\* exponent fewer than N times and returns the smallest positive e with
\* g^e mod N = 1
C11_SmallestPeriod ==
    (fn = "find_period_classical" /\ Gcd(g, N) = 1) =>
        /\ e >= 1 /\ e - 1 < N
        /\ \A k \in 1..(e - 1) : PowMod(g, k, N) # 1
        /\ pc = "fpc_loop" => (PowMod(g, e, N) = 1 \/ e < MaxE)
        /\ pc = "done" => ret = <<e>> /\ PowMod(g, e, N) = 1 /\ e = MultOrder(g, N)

C11_Witness ==
    /\ fn = "find_period_classical" /\ Gcd(g, N) = 1 /\ pc = "done"
    /\ ret = <<e>> /\ e >= 6 /\ g > N

\* C12: for gcd(g, N) # 1 find_period_classical(g, N) never returns: the loop
\* condition holds at every exponent, which only grows
C12_NoPeriodNoReturn ==
    (fn = "find_period_classical" /\ Gcd(g, N) # 1) =>
        /\ pc = "fpc_loop" /\ ret = <<>>
        /\ \A k \in 1..e : PowMod(g, k, N) # 1

C12_Witness ==
    /\ fn = "find_period_classical" /\ Gcd(g, N) # 1 /\ g > 0
    /\ pc = "fpc_loop" /\ e = MaxE /\ e > N

\* C13: under fair draws every call of classical_Shor returns, and whenever
\* the retry loop is about to draw, some base of [2, N-1] makes that very
\* iteration return
C13_EventuallyReturns ==
    /\ [](pc = "cs_draw" => \E v \in 2..(N - 1) : Gcd(v, N) # 1)
    /\ (fn = "classical_Shor") ~> (pc = "done")

C13_Witness ==
    /\ Returned("classical_Shor") /\ via = "gcd_a"
    /\ "find_period_classical" \in calls /\ r % 2 = 1

\* C14: for every integer n, is_prime(n) returns True exactly when n >= 2 and
\* n has no divisor d with 1 < d < n
C14_IsPrimeExact ==
    Returned("is_prime") =>
        ret = <<tested >= 2 /\ ~(\E d \in 2..(tested - 1) : tested % d = 0)>>

C14_Witness ==
    /\ Returned("is_prime") /\ tested > 121 /\ ret = <<TRUE>>

\* C15: get_r_candidates on the phase 0 returns a non-empty sequence that
\* contains the candidate 1
C15_PhaseZero ==
    (Returned("get_r_candidates") /\ approx[1] = 0) =>
        ret # <<>> /\ 1 \in Range(ret)

C15_Witness ==
    /\ Returned("get_r_candidates") /\ approx[1] = 0 /\ approx[2] > 2
    /\ ret = <<1>>

\* C16 as stated: for every phase k/2^n of [0, 1) the returned denominators
\* are positive and each is strictly greater than the one before it
C16_Original ==
    Returned("get_r_candidates") =>
        /\ \A i \in 1..Len(ret) : ret[i] >= 1
        /\ \A i \in 1..(Len(ret) - 1) : ret[i] < ret[i + 1]

\* C16 amended: the returned denominators are positive and non-decreasing,
\* start at 1, strictly increase from the second one on, end with the
\* denominator of the phase in lowest terms, and the first two are both 1
\* exactly when the phase is above 1/2
C16_NonDecreasing ==
    Returned("get_r_candidates") =>
        /\ ret # <<>> /\ ret[1] = 1
        /\ \A i \in 1..Len(ret) : ret[i] >= 1
        /\ \A i \in 1..(Len(ret) - 1) : ret[i] <= ret[i + 1]
        /\ \A i \in 2..(Len(ret) - 1) : ret[i] < ret[i + 1]
        /\ ret[Len(ret)] = approx[2] \div Gcd(approx[1], approx[2])
        /\ (Len(ret) >= 2 /\ ret[2] = 1) <=> 2 * approx[1] > approx[2]

C16_Witness ==
    /\ Returned("get_r_candidates") /\ 2 * approx[1] > approx[2]
    /\ Len(ret) >= 4 /\ ret[1] = 1 /\ ret[2] = 1 /\ ret[3] < ret[4]

Accepted == fn = "quantum_shor" /\ pc \in {"qs_parity", "qs_gcd", "qs_order", "done"}

\* C17: for gcd(a, N) = 1, a pool that contains the order of a modulo N makes
\* the scan accept exactly that order; a = 2, N = 15 with 4 in the pool
\* accepts r = 4
C17_OrderAccepted ==
    (Ended("quantum_shor") \/ Accepted) =>
        /\ (Gcd(a, N) = 1 /\ MultOrder(a, N) \in Range(r_candidates)) =>
              exc # Resample /\ r = MultOrder(a, N)
        /\ (a = 2 /\ N = 15 /\ 4 \in Range(r_candidates)) => r = 4

C17_Witness ==
    /\ Accepted /\ a = 2 /\ N = 15 /\ r = 4
    /\ 4 \in Range(r_candidates) /\ 8 \in Range(r_candidates)

\* C18: when the accepted r is the order of a modulo N, is even, and
\* a^(r/2) mod N is not N-1, the returned pair is nontrivial: 1 < p <= q < N;
\* a = 2, N = 15, r = 4 returns (3, 5)
C18_NontrivialRecovery ==
    (Returned("quantum_shor") /\ Gcd(a, N) = 1 /\ r = MultOrder(a, N)
        /\ r % 2 = 0 /\ PowMod(a, r \div 2, N) # N - 1) =>
        /\ 1 < ret[1] /\ ret[1] <= ret[2] /\ ret[2] < N
        /\ ret[1] * ret[2] = N
        /\ (a = 2 /\ N = 15 /\ r = 4) => ret = <<3, 5>>

C18_Witness ==
    /\ Returned("quantum_shor") /\ a = 2 /\ N = 15 /\ r = 4
    /\ r = MultOrder(a, N) /\ ret = <<3, 5>>

\* C19: the recovery has no nontriviality check: an even accepted r always
\* ends in a normal return, also when the gcd is 1 or N, and then the pair is
\* (1, N); a = 2, N = 15 with smallest valid candidate 8 returns (1, 15)
C19_TrivialPairReturned ==
    (Ended("quantum_shor") /\ ValidCandidates # {}
        /\ SetMin(ValidCandidates) % 2 = 0) =>
        LET rv == SetMin(ValidCandidates)
            pv == Gcd(PowMod(a, rv \div 2, N) + 1, N)
        IN  /\ pc = "done" /\ exc = ""
            /\ (pv = 1 \/ pv = N) => ret = <<1, N>>
            /\ (a = 2 /\ N = 15 /\ rv = 8) => ret = <<1, 15>>

C19_Witness ==
    /\ Returned("quantum_shor") /\ a = 2 /\ N = 15 /\ r = 8
    /\ 4 \notin Range(r_candidates) /\ ret = <<1, 15>> /\ exc = ""

\* C20: in classical_Shor a drawn base with gcd(a, N) # 1 goes from the gcd
\* test straight to the return of (gcd(a, N), N / gcd(a, N)); so
\* find_period_classical only runs on a base coprime to N and its loop stays
\* below N
C20_PeriodOnlyForCoprime ==
    fn = "classical_Shor" =>
        /\ (a # 0 /\ Gcd(a, N) # 1) =>
              \/ pc = "cs_gcd"
              \/ /\ pc = "done" /\ via = "gcd_a"
                 /\ ret = <<Gcd(a, N), N \div Gcd(a, N)>>
        /\ via = "gcd_a" => Gcd(a, N) # 1
        /\ pc \in {"fpc_loop", "cs_parity", "cs_test"} => g = a /\ Gcd(g, N) = 1
        /\ "find_period_classical" \in calls => Gcd(g, N) = 1
        /\ pc = "fpc_loop" => e < N /\ (PowMod(g, e, N) = 1 \/ e < MaxE)

C20_Witness ==
    /\ Returned("classical_Shor") /\ via = "gcd_a" /\ Gcd(a, N) # 1
    /\ ret = <<Gcd(a, N), N \div Gcd(a, N)>>
    /\ "find_period_classical" \in calls /\ g # a /\ e > 2

\* C21: in classical_Shor, with r the order of a modulo N, r even and
\* x = a^(r/2) mod N, p = gcd(x-1, N) is never N, and p = 1 forces
\* q = gcd(x+1, N) = N; so the return of (q, N/q) is never taken and every
\* pair returned after the order was found is (gcd(x-1, N), N/gcd(x-1, N))
C21_SecondBranchUnreachable ==
    fn = "classical_Shor" =>
        /\ pc = "cs_test" =>
              /\ r = MultOrder(a, N) /\ r % 2 = 0
              /\ x = PowMod(a, r \div 2, N)
              /\ p = Gcd(x - 1, N) /\ q = Gcd(x + 1, N)
              /\ p # N
              /\ p = 1 => q = N
        /\ via # "q"
        /\ (pc = "done" /\ via \notin {"even", "prime", "gcd_a"}) =>
              /\ via = "p"
              /\ ret = <<Gcd(x - 1, N), N \div Gcd(x - 1, N)>>
              /\ 1 < ret[1] /\ ret[1] < N

C21_Witness ==
    /\ fn = "classical_Shor" /\ pc = "cs_test"
    /\ r = MultOrder(a, N) /\ r % 2 = 0 /\ r > 2
    /\ x = N - 1 /\ p = 1 /\ q = N

\* C22: an accepted candidate r is positive, gcd(a, N) = 1 and r is a multiple
\* of the order of a modulo N; r differs from the order only when the order
\* is missing from the pool
C22_AcceptedMultipleOfOrder ==
    (Accepted \/ (fn = "quantum_shor" /\ exc = BadBase)) =>
        /\ r >= 1
        /\ N >= 2
        /\ Gcd(a, N) = 1
        /\ PowMod(a, r, N) = 1
        /\ r % MultOrder(a, N) = 0
        /\ r # MultOrder(a, N) => MultOrder(a, N) \notin Range(r_candidates)

C22_Witness ==
    /\ Accepted /\ pc = "qs_parity" /\ Gcd(a, N) = 1
    /\ MultOrder(a, N) > 1
    /\ r > MultOrder(a, N) /\ r % MultOrder(a, N) = 0
    /\ MultOrder(a, N) \notin Range(r_candidates)

====
